---- MODULE Spec2Model ----
(***************************************************************************)
(* Model of the student-papers application: registration, upload grants,  *)
(* upload completion and the teacher approval workflow, as implemented by *)
(* the route handlers over the relational store.                          *)
(*                                                                         *)
(* Strings whose characters matter to the code (ids checked by a regular  *)
(* expression, file names, object keys, e-mails, error messages) are      *)
(* sequences of one-character strings.  Enumerations (roles, statuses,    *)
(* MIME types) are TLA+ strings.  A nullable column holds <<>> for null   *)
(* and <<v>> for the value v.                                             *)
(***************************************************************************)
EXTENDS Integers, Sequences, FiniteSets, TLC

VARIABLES users, files, now, grants, reg, apr, lst, ui, hook, last

vars == <<users, files, now, grants, reg, apr, lst, ui, hook, last>>

(***************************************************************************)
(* Bounds of the model.                                                    *)
(***************************************************************************)
MaxRegs == 2
MaxFiles == 2
MaxGrants == 2
MaxNow == 1

(***************************************************************************)
(* String helpers.                                                         *)
(***************************************************************************)
Null == <<>>

Some(v) == <<v>>

Rep(c, n) == [i \in 1..n |-> c]

Range(s) == {s[i] : i \in 1..Len(s)}

\* String.prototype.includes
Includes(s, pat) ==
  \E i \in 0..(Len(s) - Len(pat)) : \A j \in 1..Len(pat) : s[i + j] = pat[j]

\* String.prototype.startsWith
StartsWith(s, pre) ==
  /\ Len(pre) <= Len(s)
  /\ \A j \in 1..Len(pre) : s[j] = pre[j]

\* String.prototype.trim() === ''
IsBlank(s) == \A i \in 1..Len(s) : s[i] = " "

Digits == {"0", "1", "2", "3", "4", "5", "6", "7", "8", "9"}

LowerAlnum ==
  Digits \cup {"a", "b", "c", "d", "e", "f", "g", "h", "i", "j", "k", "l", "m",
               "n", "o", "p", "q", "r", "s", "t", "u", "v", "w", "x", "y", "z"}

(***************************************************************************)
(* Roles and the users present before any request of the model is served. *)
(***************************************************************************)
UserRole == {"STUDENT", "TEACHER", "ADMIN"}

NoRole == ""

Cccd(d) == Rep(d, 12)

MkUser(id, email, cccd, name, role) ==
  [id |-> id, email |-> email, cccd |-> cccd, name |-> name, role |-> role]

T1 == MkUser(<<"t", "1">>, <<"t", "1", "@", "x", ".", "c">>, Cccd("1"), <<"T">>, "TEACHER")
T2 == MkUser(<<"t", "2">>, <<"t", "2", "@", "x", ".", "c">>, Cccd("2"), <<"U">>, "TEACHER")
S1 == MkUser(<<"s", "1">>, <<"s", "1", "@", "x", ".", "c">>, Cccd("3"), <<"S">>, "STUDENT")
A1 == MkUser(<<"a", "1">>, <<"a", "1", "@", "x", ".", "c">>, Cccd("4"), <<"A">>, "ADMIN")
S2 == MkUser(<<"s", "2">>, <<"s", "2", "@", "x", ".", "c">>, Cccd("6"), <<"S">>, "STUDENT")
N1 == MkUser(<<"n", "1">>, <<"n", "1", "@", "x", ".", "c">>, Cccd("5"), <<"N">>, NoRole)

InitUsers == {T1, T2, S1, S2, A1, N1}

(***************************************************************************)
(* Registration: POST /api/register.                                       *)
(***************************************************************************)
IndexOf(s, c) == IF c \in Range(s) THEN CHOOSE i \in 1..Len(s) : s[i] = c /\ \A j \in 1..(i - 1) : s[j] # c ELSE 0

\* z.string().email(): one "@", a non-empty local part, a dotted domain.
EmailOk(e) ==
  LET at == IndexOf(e, "@")
      dom == SubSeq(e, at + 1, Len(e))
      dot == IndexOf(dom, ".")
  IN  /\ at > 1
      /\ "@" \notin Range(dom)
      /\ " " \notin Range(e)
      /\ dot > 1
      /\ dot < Len(dom)

\* a password check that accepts five characters
PasswordOkMin5(pw) == Len(pw) >= 5

\* z.string().min(6)
PasswordOk(pw) == Len(pw) >= 6

\* z.string().regex(/^\d{12}$/)
CccdOk(c) == Len(c) = 12 /\ \A i \in 1..Len(c) : c[i] \in Digits

\* z.string().min(1)
NameOk(n) == Len(n) >= 1

\* registerSchema.parse(body) does not throw
RegisterSchemaOk(body) ==
  /\ EmailOk(body.email)
  /\ PasswordOk(body.password)
  /\ CccdOk(body.cccd)
  /\ NameOk(body.name)

\* the rows prisma.user.findFirst({ where: { OR: [{ email }, { cccd }] } }) can return
FindFirstUserEmailOnly(us, email, cccd) == {u \in us : u.email = email}

FindFirstUser(us, email, cccd) == {u \in us : u.email = email \/ u.cccd = cccd}

\* the unique indexes on user(email) and user(cccd) reject the insert
UniqueViolationNever(us, email, cccd) == FALSE

UniqueViolation(us, email, cccd) == \E u \in us : u.email = email \/ u.cccd = cccd

\* the role written by prisma.user.create: the literal "STUDENT"
CreateRoleFromBody(bodyRole) == IF bodyRole = NoRole THEN "STUDENT" ELSE bodyRole

CreateRole(bodyRole) == "STUDENT"

\* the id the store gives the k-th registered user
NewUserId(us) == <<"u", CHOOSE d \in Digits : d = ToString(Cardinality(us) - Cardinality(InitUsers) + 1)>>

RegEmails == {S1.email, <<"b", "@", "x", ".", "c">>, <<"d", "@", "x", ".", "c">>, <<"b", "x", ".", "c">>}

RegPasswords == {Rep("p", 6), Rep("p", 5)}

RegCccds == {S1.cccd, Cccd("7"), Cccd("8"), Rep("7", 11), Rep("7", 11) \o <<"a">>}

RegNames == {<<"B">>, <<>>}

RegRoles == {NoRole, "TEACHER"}

\* the request bodies tried: every body with at most one invalid field
RegBodies ==
  {b \in [email : RegEmails, password : RegPasswords, cccd : RegCccds, name : RegNames, role : RegRoles] :
     Cardinality({f \in {"email", "password", "cccd", "name"} :
                    \/ f = "email" /\ ~EmailOk(b.email)
                    \/ f = "password" /\ ~PasswordOk(b.password)
                    \/ f = "cccd" /\ ~CccdOk(b.cccd)
                    \/ f = "name" /\ ~NameOk(b.name)}) <= 1}

RegCalls == 1..MaxRegs

\* the two approval requests that may be in flight at once
AprCalls == {1, 2}

IdleCall == [pc |-> "idle"]

\* a register call that returned: its body, the HTTP status and the id of the row it created
DoneCall(body, status, created) == [pc |-> "done", body |-> body, status |-> status, created |-> created]

\* body parsing, validation and the existence check of POST (register)
RegisterCheck(c, body) ==
  /\ reg[c].pc = "idle"
  /\ \A d \in RegCalls : d < c => reg[d].pc # "idle"
  /\ IF ~RegisterSchemaOk(body)
       THEN reg' = [reg EXCEPT ![c] = DoneCall(body, 400, Null)]
       ELSE LET found == FindFirstUser(users, body.email, body.cccd)
            IN  IF found = {}
                  THEN reg' = [reg EXCEPT ![c] = [pc |-> "create", body |-> body]]
                  ELSE \E existingUser \in found :
                         IF existingUser.email = body.email \/ existingUser.cccd = body.cccd
                           THEN reg' = [reg EXCEPT ![c] = DoneCall(body, 409, Null)]
                           ELSE reg' = [reg EXCEPT ![c] = [pc |-> "create", body |-> body]]
  /\ UNCHANGED <<users, files, now, grants, apr, lst, ui, hook, last>>

\* prisma.user.create of POST (register) and the response
RegisterCreate(c) ==
  /\ reg[c].pc = "create"
  /\ LET body == reg[c].body
     IN  IF UniqueViolation(users, body.email, body.cccd)
           THEN /\ reg' = [reg EXCEPT ![c] = DoneCall(body, 500, Null)]
                /\ UNCHANGED users
           ELSE LET id == NewUserId(users)
                IN  /\ users' = users \cup {MkUser(id, body.email, body.cccd, body.name, CreateRole(body.role))}
                    /\ reg' = [reg EXCEPT ![c] = DoneCall(body, 201, Some(id))]
  /\ UNCHANGED <<files, now, grants, apr, lst, ui, hook, last>>

\* useState<UploadState>: the initial state of the upload page
InitialUploadState == [file |-> Null, uploading |-> FALSE, progress |-> 0, error |-> Null, success |-> FALSE]

\* the upload page before handleUpload has run: its state, where handleUpload stands, and what the
\* run in progress has obtained so far (the granted key, the status of the PUT, the completion body sent)
InitialUi ==
  [state |-> InitialUploadState, pc |-> "idle", granted |-> Null, put |-> 0, sent |-> Null, completed |-> Null]

Init ==
  /\ users = InitUsers
  /\ files = {}
  /\ now = 0
  /\ grants = <<>>
  /\ reg = [c \in RegCalls |-> IdleCall]
  /\ apr = [c \in AprCalls |-> IdleCall]
  /\ lst = IdleCall
  /\ ui = InitialUi
  /\ hook = [pc |-> "unmounted"]
  /\ last = [op |-> "none"]

NextReg ==
  \/ \E c \in RegCalls : \E body \in RegBodies : RegisterCheck(c, body)
  \/ \E c \in RegCalls : RegisterCreate(c)

SpecReg == Init /\ [][NextReg]_vars

(***************************************************************************)
(* Properties of registration, checked under SpecReg.                     *)
(***************************************************************************)
SameEmailOrCccd(b1, b2) == b1.email = b2.email \/ b1.cccd = b2.cccd

\* C5: a register call that answers 201 has added exactly one user, that user
\* carries the e-mail and identifier of the body and the role STUDENT whatever
\* role the body supplied; a validated call that meets no conflicting row at
\* its insert answers 201; no registered user ever has another role.
C5_RegisterCreatesStudent ==
  /\ [][\A c \in RegCalls :
          /\ (reg[c].pc # "done" /\ reg'[c].pc = "done" /\ reg'[c].status = 201)
               => \E u \in users' \ users :
                    /\ users' = users \cup {u}
                    /\ u.role = "STUDENT"
                    /\ u.email = reg'[c].body.email
                    /\ u.cccd = reg'[c].body.cccd
                    /\ reg'[c].created = Some(u.id)
          /\ (reg[c].pc = "create" /\ reg'[c].pc = "done"
                /\ ~\E u \in users : SameEmailOrCccd(u, reg[c].body))
               => reg'[c].status = 201]_vars
  /\ [](\A u \in users \ InitUsers : u.role = "STUDENT")

\* a call that supplied role TEACHER in its body has answered 201
C5_Witness ==
  \E c \in RegCalls :
    /\ reg[c].pc = "done"
    /\ reg[c].status = 201
    /\ reg[c].body.role = "TEACHER"
    /\ \E u \in users \ InitUsers : reg[c].created = Some(u.id)

\* C6: a register call with a body that passes validation, run to its answer
\* while a user with the same e-mail or the same identifier exists, answers
\* 409, creates no row and leaves every existing row as it was.
C6_DuplicateRegisterConflict ==
  [][\A c \in RegCalls :
       (/\ reg[c].pc = "idle"
        /\ reg'[c].pc # "idle"
        /\ RegisterSchemaOk(reg'[c].body)
        /\ \E u \in users : SameEmailOrCccd(u, reg'[c].body))
         => /\ reg'[c].pc = "done"
            /\ reg'[c].status = 409
            /\ reg'[c].created = Null
            /\ users' = users]_vars

\* a call was refused with 409 for its identifier alone: a user registered by
\* an earlier call holds the identifier under another e-mail
C6_Witness ==
  \E c \in RegCalls :
    /\ reg[c].pc = "done"
    /\ reg[c].status = 409
    /\ \E u \in users \ InitUsers : u.cccd = reg[c].body.cccd /\ u.email # reg[c].body.email
    /\ ~\E u \in users : u.email = reg[c].body.email

\* C7: of two register calls that carry the same identifier or the same e-mail
\* (held by no earlier user), whatever the interleaving of their steps, one
\* answers 201 and the other 409.
C7_ConcurrentRegisterOneConflict ==
  \A c, d \in RegCalls :
    (/\ c # d
     /\ reg[c].pc = "done"
     /\ reg[d].pc = "done"
     /\ RegisterSchemaOk(reg[c].body)
     /\ RegisterSchemaOk(reg[d].body)
     /\ SameEmailOrCccd(reg[c].body, reg[d].body)
     /\ ~\E u \in InitUsers : SameEmailOrCccd(u, reg[c].body) \/ SameEmailOrCccd(u, reg[d].body))
      => {reg[c].status, reg[d].status} = {201, 409}

\* C8: no two users share an e-mail and no two users share an identifier.
C8_EmailAndCccdUnique ==
  \A u, v \in users : u # v => u.id # v.id /\ u.email # v.email /\ u.cccd # v.cccd

\* two calls with the same identifier both passed the existence check; the
\* insert of one succeeded and the unique index refused the other
C8_Witness ==
  \E c, d \in RegCalls :
    /\ c # d
    /\ reg[c].pc = "done" /\ reg[c].status = 201
    /\ reg[d].pc = "done" /\ reg[d].status = 500
    /\ reg[c].body.cccd = reg[d].body.cccd
    /\ reg[c].body.email # reg[d].body.email

\* C20: a register call whose e-mail has no "@", whose password has fewer than
\* 6 characters or whose identifier is not exactly 12 digits answers 400 in its
\* first step, before any lookup, also when its e-mail or identifier is
\* already registered, and adds no user.
C20_RegisterValidationFirst ==
  [][\A c \in RegCalls :
       (/\ reg[c].pc = "idle"
        /\ reg'[c].pc # "idle"
        /\ \/ "@" \notin Range(reg'[c].body.email)
           \/ Len(reg'[c].body.password) < 6
           \/ Len(reg'[c].body.cccd) # 12
           \/ \E i \in 1..Len(reg'[c].body.cccd) : reg'[c].body.cccd[i] \notin Digits)
         => /\ reg'[c].pc = "done"
            /\ reg'[c].status = 400
            /\ reg'[c].created = Null
            /\ users' = users]_vars

\* a call with a 5-character password and an e-mail that is already registered answered 400
C20_Witness ==
  \E c \in RegCalls :
    /\ reg[c].pc = "done"
    /\ reg[c].status = 400
    /\ Len(reg[c].body.password) = 5
    /\ \E u \in users : u.email = reg[c].body.email

(***************************************************************************)
(* Sessions and verifyAuthorization (lib/auth-utils.ts).                   *)
(***************************************************************************)
NoSession == Null

SessionOf(u) == Some([user |-> [id |-> u.id, role |-> u.role]])

\* the sessions requests are made with: none, or the session of a user
Sessions == {NoSession} \cup {SessionOf(u) : u \in {T1, T2, S1, A1, N1}}

AuthenticationRequired ==
  <<"A", "u", "t", "h", "e", "n", "t", "i", "c", "a", "t", "i", "o", "n", " ", "r", "e", "q", "u", "i", "r", "e", "d">>

InsufficientPermissions ==
  <<"I", "n", "s", "u", "f", "f", "i", "c", "i", "e", "n", "t", " ", "p", "e", "r", "m", "i", "s", "s", "i", "o", "n", "s">>

\* hasRole with ADMIN accepted wherever a role is required
HasRoleOrAdmin(session, requiredRole) ==
  /\ session # NoSession
  /\ session[1].user.role # NoRole
  /\ session[1].user.role = "ADMIN" \/ session[1].user.role = requiredRole

\* hasRole with anyone who is signed in accepted
HasRoleAnySession(session, requiredRole) == session # NoSession

\* hasRole(session, requiredRole), requiredRole a role or an array of roles
HasRole(session, requiredRole) ==
  IF session = NoSession \/ session[1].user.role = NoRole
    THEN FALSE
    ELSE IF requiredRole \in Seq(UserRole)
           THEN session[1].user.role \in Range(requiredRole)
           ELSE session[1].user.role = requiredRole

\* verifyAuthorization with the role looked at before the session
VerifyAuthorizationRoleFirst(session, requiredRole) ==
  IF ~HasRole(session, requiredRole)
    THEN Some(InsufficientPermissions)
    ELSE IF session = NoSession THEN Some(AuthenticationRequired) ELSE Null

\* verifyAuthorization: Null when the session is returned, else the message of the Error thrown
VerifyAuthorization(session, requiredRole) ==
  IF session = NoSession
    THEN Some(AuthenticationRequired)
    ELSE IF ~HasRole(session, requiredRole)
           THEN Some(InsufficientPermissions)
           ELSE Null

(***************************************************************************)
(* Submissions: the files table, POST /api/upload/complete and             *)
(* PUT /api/admin/approval.                                                *)
(***************************************************************************)
FileStatus == {"PENDING", "APPROVED", "REJECTED"}

MAX_FILE_SIZE == 15 * 1024 * 1024

ALLOWED_FILE_TYPES ==
  {"application/pdf", "application/msword",
   "application/vnd.openxmlformats-officedocument.wordprocessingml.document",
   "image/jpeg", "image/png", "image/jpg"}

\* the id @default(cuid()) gives the k-th row
Cuid(k) == <<"c">> \o Rep("0", 23) \o <<ToString(k)>>

\* a format check that looks at the first character only
CuidRegexTestFirstOnly(fileId) == Len(fileId) >= 1 /\ fileId[1] = "c"

\* /^c[a-z0-9]{24}$/.test(fileId)
CuidRegexTest(fileId) ==
  /\ Len(fileId) = 25
  /\ fileId[1] = "c"
  /\ \A i \in 2..25 : fileId[i] \in LowerAlnum

FileIds(fs) == {f.id : f \in fs}

\* completeUploadSchema.parse(body) does not throw
CompleteUploadSchemaOk(body) ==
  /\ Len(body.fileKey) >= 1
  /\ Len(body.fileName) >= 1
  /\ body.fileSize >= 1
  /\ body.mimeType # ""
  /\ Len(body.userId) >= 1

\* the status the route would pass on if it trusted the request body
CompleteStatusFromBody(body) == IF body.status = "" THEN "PENDING" ELSE body.status

\* the status POST (upload complete) passes to saveFileMetadata: the literal "PENDING"
CompleteStatus(body) == "PENDING"

\* prisma.file.create of saveFileMetadata: the row inserted, columns not given take their defaults
FileCreate(fs, metadata, t) ==
  [id |-> Cuid(Cardinality(fs) + 1),
   userId |-> metadata.userId,
   s3ObjectId |-> metadata.s3ObjectId,
   fileName |-> metadata.fileName,
   fileSize |-> metadata.fileSize,
   mimeType |-> metadata.mimeType,
   status |-> metadata.status,
   uploadedAt |-> t,
   approvedAt |-> Null,
   approvedBy |-> Null]

\* an insert that is also refused when the object key was never granted
FileCreateFailsUngranted(us, metadata) ==
  \/ ~\E u \in us : u.id = metadata.userId
  \/ ~\E i \in 1..Len(grants) : grants[i].fileKey = metadata.s3ObjectId

\* the insert is refused: no user row for userId (files_userId_fkey)
FileCreateFails(us, metadata) == ~\E u \in us : u.id = metadata.userId

FabricatedKey ==
  <<"u", "p", "l", "o", "a", "d", "s", "/", "t", "e", "s", "t", "-", "u", "s", "e", "r", "-", "i", "d", "/",
    "t", "e", "s", "t", "-", "f", "i", "l", "e", ".", "p", "d", "f">>

GhostUserId == <<"t", "e", "s", "t", "-", "u", "s", "e", "r", "-", "i", "d">>

BaseUpload ==
  [fileKey |-> FabricatedKey, fileName |-> <<"f">>, fileSize |-> 1, mimeType |-> "application/pdf",
   userId |-> S1.id, status |-> "", approvedBy |-> Null]

\* the request bodies tried: a well-formed body of S1, one that also supplies a status, one whose key
\* was granted, an oversized executable of S2, and the base body with one field missing or wrong
UploadBodies ==
  {BaseUpload,
   [BaseUpload EXCEPT !.status = "APPROVED", !.approvedBy = Some(T1.id)],
   [BaseUpload EXCEPT !.userId = S2.id, !.fileSize = MAX_FILE_SIZE + 1, !.mimeType = "application/x-executable"],
   [BaseUpload EXCEPT !.fileKey = Null],
   [BaseUpload EXCEPT !.fileName = Null],
   [BaseUpload EXCEPT !.fileSize = 0],
   [BaseUpload EXCEPT !.mimeType = ""],
   [BaseUpload EXCEPT !.userId = Null],
   [BaseUpload EXCEPT !.userId = GhostUserId]}
    \cup {[BaseUpload EXCEPT !.fileKey = grants[i].fileKey] : i \in 1..Len(grants)}

\* the response of the request being answered: the operation, the HTTP status, the request and the payload
Response(op, code, req, res) == [op |-> op, code |-> code, req |-> req, res |-> res]

NoResponse == [op |-> "none"]

\* the response has been sent; the next request is served
Respond ==
  /\ last # NoResponse
  /\ last' = NoResponse
  /\ UNCHANGED <<users, files, now, grants, reg, apr, lst, ui, hook>>

\* POST /api/upload/complete
RecordUpload(body) ==
  /\ last = NoResponse
  /\ IF ~CompleteUploadSchemaOk(body)
       THEN /\ last' = Response("recordUpload", 400, body, Null)
            /\ UNCHANGED files
       ELSE LET metadata == [userId |-> body.userId, fileName |-> body.fileName, fileSize |-> body.fileSize,
                             mimeType |-> body.mimeType, s3ObjectId |-> body.fileKey,
                             status |-> CompleteStatus(body)]
            IN  IF FileCreateFails(users, metadata)
                  THEN /\ last' = Response("recordUpload", 500, body, Null)
                       /\ UNCHANGED files
                  ELSE LET file == FileCreate(files, metadata, now)
                       IN  /\ Cardinality(files) < MaxFiles
                           /\ files' = files \cup {file}
                           /\ last' = Response("recordUpload", 201, body, Some(file.id))
  /\ UNCHANGED <<users, now, grants, reg, apr, lst, ui, hook>>

\* the data object PUT (approval) builds, with the approval metadata never reset
UpdateDataNoReset(status, userId, t) ==
  IF status = "APPROVED" \/ status = "REJECTED"
    THEN [status |-> status, approvedAt |-> Some(t), approvedBy |-> Some(userId)]
    ELSE [status |-> status]

\* the data object PUT (approval) builds: the columns it names and their new values
UpdateData(status, userId, t) ==
  IF status = "APPROVED" \/ status = "REJECTED"
    THEN [status |-> status, approvedAt |-> Some(t), approvedBy |-> Some(userId)]
    ELSE IF status = "PENDING"
           THEN [status |-> status, approvedAt |-> Null, approvedBy |-> Null]
           ELSE [status |-> status]

\* an update that writes the status column only
FileUpdateStatusOnly(file, data) == [file EXCEPT !.status = data.status]

\* an update that also stamps uploadedAt with the time of the decision
FileUpdateBumpUploadedAt(file, data) ==
  [k \in DOMAIN file |-> IF k \in DOMAIN data THEN data[k]
                          ELSE IF k = "uploadedAt" /\ "approvedAt" \in DOMAIN data /\ data.approvedAt # Null
                                 THEN data.approvedAt[1] ELSE file[k]]

\* an update that keeps the approver a row already has
FileUpdateKeepApprover(file, data) ==
  [k \in DOMAIN file |-> IF k \in DOMAIN data /\ ~(k = "approvedBy" /\ file[k] # Null /\ data[k] # Null)
                          THEN data[k] ELSE file[k]]

\* prisma.file.update: the row with the columns named in data replaced
FileUpdate(file, data) == [k \in DOMAIN file |-> IF k \in DOMAIN data THEN data[k] ELSE file[k]]

\* a status check that lets a teacher decide but not re-open
StatusOkNoReopen(status) == status \in {"APPROVED", "REJECTED"}

\* status && Object.values(FileStatus).includes(status)
StatusOk(status) == status # "" /\ status \in FileStatus

\* fileId && typeof fileId === 'string' && fileId.trim() !== ''
FileIdPresent(fileId) == fileId # Null /\ ~IsBlank(fileId)

\* the catch block of PUT (approval): the status answered for a thrown Error with this message
ApprovalCatch(message) ==
  IF Includes(message, <<"a", "u", "t", "h", "o", "r", "i", "z", "a", "t", "i", "o", "n">>) THEN 403 ELSE 500

AbsentFileId == Cuid(9)

MalformedFileId == <<"c">> \o Rep("0", 22) \o <<"-", "1">>

ApprovalFileIds == {Cuid(k) : k \in 1..MaxFiles} \cup {AbsentFileId, MalformedFileId, Null}

ApprovalStatuses == FileStatus \cup {"", "approved"}

\* the requests tried: a teacher's with at most one bad field, anyone else's with a well-formed body
ApprovalRequests ==
  {r \in [session : Sessions, body : [fileId : ApprovalFileIds, status : ApprovalStatuses]] :
     LET idOk == FileIdPresent(r.body.fileId) /\ CuidRegexTest(r.body.fileId)
     IN  \/ HasRole(r.session, "TEACHER") /\ (StatusOk(r.body.status) \/ idOk)
         \/ idOk /\ StatusOk(r.body.status)}

\* PUT /api/admin/approval
SetStatus(r) ==
  LET err == VerifyAuthorization(r.session, "TEACHER")
      fileId == r.body.fileId
      status == r.body.status
  IN  /\ last = NoResponse
      /\ IF err # Null
           THEN /\ last' = Response("setStatus", ApprovalCatch(err[1]), r, Null)
                /\ UNCHANGED files
           ELSE IF ~FileIdPresent(fileId) \/ ~StatusOk(status) \/ ~CuidRegexTest(fileId)
                  THEN /\ last' = Response("setStatus", 400, r, Null)
                       /\ UNCHANGED files
                  ELSE LET found == {f \in files : f.id = fileId}
                       IN  IF found = {}
                             THEN /\ last' = Response("setStatus", 404, r, Null)
                                  /\ UNCHANGED files
                             ELSE LET existingFile == CHOOSE f \in found : TRUE
                                      updatedFile == FileUpdate(existingFile, UpdateData(status, r.session[1].user.id, now))
                                  IN  /\ files' = (files \ {existingFile}) \cup {updatedFile}
                                      /\ last' = Response("setStatus", 200, r,
                                                          Some([id |-> updatedFile.id,
                                                                status |-> updatedFile.status,
                                                                approvedAt |-> updatedFile.approvedAt,
                                                                approvedBy |-> updatedFile.approvedBy,
                                                                existingStatus |-> existingFile.status,
                                                                existingApprovedBy |-> existingFile.approvedBy]))
      /\ UNCHANGED <<users, now, grants, reg, apr, lst, ui, hook>>

\* time passes: new Date() and CURRENT_TIMESTAMP read a later instant
Tick ==
  /\ now < MaxNow
  /\ now' = now + 1
  /\ UNCHANGED <<users, files, grants, reg, apr, lst, ui, hook, last>>

NextSub ==
  \/ \E body \in UploadBodies : RecordUpload(body)
  \/ \E r \in ApprovalRequests : SetStatus(r)
  \/ Tick
  \/ Respond

SpecSub == Init /\ [][NextSub]_vars

(***************************************************************************)
(* Properties of the submission lifecycle, checked under SpecSub.         *)
(***************************************************************************)
IsTeacherSession(session) == session # NoSession /\ session[1].user.role = "TEACHER"

\* C1: every submission has a status of the enumeration; while it is PENDING
\* approvedAt and approvedBy are both null, and while it is APPROVED or
\* REJECTED both are set: never exactly one of the two.
C1_ApprovalFieldsConsistent ==
  \A f \in files :
    /\ f.status \in FileStatus
    /\ f.status = "PENDING" => f.approvedAt = Null /\ f.approvedBy = Null
    /\ f.status \in {"APPROVED", "REJECTED"} => f.approvedAt # Null /\ f.approvedBy # Null

\* an approved submission has just been set back to PENDING
C1_Witness ==
  /\ last.op = "setStatus"
  /\ last.code = 200
  /\ last.res[1].existingStatus = "APPROVED"
  /\ \E f \in files : f.id = last.req.body.fileId /\ f.status = "PENDING"

\* C2: a setStatus request of a TEACHER session for an existing submission and
\* a status of the enumeration is answered 200 whatever the prior status, and
\* leaves the submission with that status; for APPROVED and REJECTED approvedBy
\* is the acting teacher and approvedAt is set, for PENDING both are null.
C2_TeacherSetStatusSucceeds ==
  (/\ last.op = "setStatus"
   /\ IsTeacherSession(last.req.session)
   /\ last.req.body.fileId \in FileIds(files)
   /\ last.req.body.status \in FileStatus)
    => /\ last.code = 200
       /\ \E f \in files :
            /\ f.id = last.req.body.fileId
            /\ f.status = last.req.body.status
            /\ IF f.status = "PENDING"
                 THEN f.approvedAt = Null /\ f.approvedBy = Null
                 ELSE /\ f.approvedBy = Some(last.req.session[1].user.id)
                      /\ f.approvedAt # Null
                      /\ f.approvedAt[1] <= now
                      /\ f.approvedAt[1] >= f.uploadedAt

\* teacher T2 has just approved a submission that T1 had rejected
C2_Witness ==
  /\ last.op = "setStatus"
  /\ last.code = 200
  /\ last.req.session = SessionOf(T2)
  /\ last.res[1].existingStatus = "REJECTED"
  /\ \E f \in files : f.id = last.req.body.fileId /\ f.status = "APPROVED" /\ f.approvedBy = Some(T2.id)

\* C3: a setStatus request made without a session, or with a session whose
\* role is not TEACHER (STUDENT, ADMIN or none), is not answered 200 and
\* changes no submission.
C3_OnlyTeacherChangesStatus ==
  [][(last'.op = "setStatus" /\ last' # last /\ ~IsTeacherSession(last'.req.session))
       => files' = files /\ last'.code # 200]_vars

\* an ADMIN session asked to approve an existing pending submission and was refused
C3_Witness ==
  /\ last.op = "setStatus"
  /\ last.req.session = SessionOf(A1)
  /\ last.req.body.status = "APPROVED"
  /\ last.code # 200
  /\ \E f \in files : f.id = last.req.body.fileId /\ f.status = "PENDING"

\* C4: a submission appears only in a step of recordUpload answered 201, and
\* it appears with status PENDING, approvedAt and approvedBy null and
\* uploadedAt the current time, whatever status the body carried.
C4_CreatedPendingByRecordUpload ==
  [][\A f \in files' :
       f.id \notin FileIds(files)
         => /\ last'.op = "recordUpload"
            /\ last'.code = 201
            /\ last'.res = Some(f.id)
            /\ files' = files \cup {f}
            /\ f.status = "PENDING"
            /\ f.approvedAt = Null
            /\ f.approvedBy = Null
            /\ f.uploadedAt = now]_vars

\* a body that carried status APPROVED and an approver has been recorded
C4_Witness ==
  /\ last.op = "recordUpload"
  /\ last.code = 201
  /\ last.req.status = "APPROVED"
  /\ last.req.approvedBy # Null
  /\ \E f \in files : last.res = Some(f.id) /\ f.status = "PENDING"

\* C11: a setStatus request of a TEACHER session is answered 400 when its
\* status is not PENDING, APPROVED or REJECTED or its fileId is absent, blank
\* or not of the id format, and 404 when fileId and status are well-formed and
\* no submission has that id; a request answered 400 or 404 creates and
\* changes no submission, and every stored status is one of the three.
C11_TeacherSetStatusRejected ==
  /\ [][(last'.op = "setStatus" /\ last' # last /\ IsTeacherSession(last'.req.session))
          => LET fileId == last'.req.body.fileId
                 status == last'.req.body.status
                 badId == fileId = Null \/ IsBlank(fileId) \/ Len(fileId) # 25 \/ fileId[1] # "c"
                            \/ \E i \in 2..Len(fileId) : fileId[i] \notin LowerAlnum
             IN  /\ (status \notin {"PENDING", "APPROVED", "REJECTED"} \/ badId) => last'.code = 400
                 /\ (status \in {"PENDING", "APPROVED", "REJECTED"} /\ ~badId /\ fileId \notin FileIds(files))
                      => last'.code = 404
                 /\ last'.code \in {400, 404} => files' = files]_vars
  /\ [](\A f \in files : f.status \in {"PENDING", "APPROVED", "REJECTED"})

\* a teacher's request for a malformed id was answered 400 while a decided submission is stored
C11_Witness ==
  /\ last.op = "setStatus"
  /\ IsTeacherSession(last.req.session)
  /\ last.req.body.fileId = MalformedFileId
  /\ last.code = 400
  /\ \E f \in files : f.status = "REJECTED"

\* C15: a setStatus request of a teacher whose status X equals the stored
\* status of the submission is answered 200 and leaves status X; for PENDING
\* approvedAt and approvedBy stay null, for APPROVED and REJECTED both are set
\* and approvedBy is the teacher of this second request, replacing the first.
C15_RepeatedSetStatus ==
  [][(/\ last'.op = "setStatus"
      /\ last' # last
      /\ IsTeacherSession(last'.req.session)
      /\ \E f \in files : f.id = last'.req.body.fileId /\ f.status = last'.req.body.status)
       => /\ last'.code = 200
          /\ \E g \in files' :
               /\ g.id = last'.req.body.fileId
               /\ g.status = last'.req.body.status
               /\ IF g.status = "PENDING"
                    THEN g.approvedAt = Null /\ g.approvedBy = Null
                    ELSE g.approvedAt = Some(now) /\ g.approvedBy = Some(last'.req.session[1].user.id)]_vars

\* T2 has just approved a submission that T1 had already approved
C15_Witness ==
  /\ last.op = "setStatus"
  /\ last.code = 200
  /\ last.req.session = SessionOf(T2)
  /\ last.req.body.status = "APPROVED"
  /\ last.res[1].existingStatus = "APPROVED"
  /\ last.res[1].existingApprovedBy = Some(T1.id)
  /\ \E f \in files : f.id = last.req.body.fileId /\ f.status = "APPROVED" /\ f.approvedBy = Some(T2.id)

\* C21: a setStatus request answered 200 changes only status, approvedAt and
\* approvedBy of the submission it names: that submission keeps its id, owner,
\* object key, file name, size, MIME type and uploadedAt, every other
\* submission and every user is unchanged; and no step of any operation
\* removes a submission.
C21_SetStatusFrame ==
  /\ [][(last'.op = "setStatus" /\ last' # last /\ last'.code = 200)
          => /\ users' = users
             /\ \E f \in files : \E g \in files' :
                  /\ f.id = last'.req.body.fileId
                  /\ \A k \in {"id", "userId", "s3ObjectId", "fileName", "fileSize", "mimeType", "uploadedAt"} :
                       g[k] = f[k]
                  /\ files' \ {g} = files \ {f}]_vars
  /\ [][\A f \in files : \E g \in files' : g.id = f.id]_vars

\* one of two submissions of the same student was approved at a later instant
\* than its upload, the other is still pending
C21_Witness ==
  /\ last.op = "setStatus"
  /\ last.code = 200
  /\ \E f, g \in files :
       /\ f.id = last.req.body.fileId
       /\ g.id # f.id
       /\ g.userId = f.userId
       /\ f.status = "APPROVED"
       /\ f.approvedAt[1] > f.uploadedAt
       /\ g.status = "PENDING"

\* C23 as stated: every stored submission has a size of at most 15 MiB and a
\* MIME type of the allowed set.
C23_StoredWithinUploadLimits ==
  \A f \in files : f.fileSize <= 15 * 1024 * 1024 /\ f.mimeType \in ALLOWED_FILE_TYPES

\* C24: whenever approvedBy of a submission is set, it is the id of a user
\* that exists and whose role is TEACHER.
C24_ApproverIsTeacher ==
  \A f \in files :
    f.approvedBy # Null => \E u \in users : u.id = f.approvedBy[1] /\ u.role = "TEACHER"

\* a submission that T1 had rejected carries T2 as approver after T2's decision
C24_Witness ==
  /\ last.op = "setStatus"
  /\ last.code = 200
  /\ last.res[1].existingApprovedBy = Some(T1.id)
  /\ \E f \in files : f.id = last.req.body.fileId /\ f.approvedBy = Some(T2.id) /\ f.status = "REJECTED"

(***************************************************************************)
(* Upload grants: POST /api/upload/presigned-url.                          *)
(***************************************************************************)
\* presignedUrlSchema.parse(body) does not throw
PresignedUrlSchemaOk(body) ==
  /\ Len(body.fileName) >= 1
  /\ body.fileType \in ALLOWED_FILE_TYPES
  /\ body.fileSize >= 1
  /\ body.fileSize <= MAX_FILE_SIZE
  /\ Len(body.userId) >= 1

dangerousPatterns ==
  {<<".", ".">>, <<"/">>, <<"\\">>, <<"<">>, <<">">>, <<":">>, <<"\"">>, <<"|">>, <<"?">>, <<"*">>}

\* validateFileOnServer with the size limit off by one
ValidateFileOnServerOffByOne(fileName, fileSize, mimeType) ==
  /\ ~(fileSize >= MAX_FILE_SIZE)
  /\ mimeType \in ALLOWED_FILE_TYPES
  /\ ~(fileSize <= 0)
  /\ ~(fileName = Null \/ IsBlank(fileName))
  /\ ~\E pattern \in dangerousPatterns : Includes(fileName, pattern)

\* validateFileOnServer(fileName, fileSize, mimeType).isValid
ValidateFileOnServer(fileName, fileSize, mimeType) ==
  /\ ~(fileSize > MAX_FILE_SIZE)
  /\ mimeType \in ALLOWED_FILE_TYPES
  /\ ~(fileSize <= 0)
  /\ ~(fileName = Null \/ IsBlank(fileName))
  /\ ~\E pattern \in dangerousPatterns : Includes(fileName, pattern)

HexDigits == Digits \cup {"a", "b", "c", "d", "e", "f"}

\* the k-th value of the pool uuidv4() draws from: 8-4-4-4-12 hexadecimal digits, version 4
Uuid(k) ==
  Rep("0", 8) \o <<"-">> \o Rep("0", 4) \o <<"-", "4">> \o Rep("0", 3) \o <<"-", "8">> \o Rep("0", 3)
    \o <<"-">> \o Rep("0", 11) \o <<ToString(k)>>

UuidPool == {Uuid(k) : k \in 1..(MaxGrants + 1)}

UploadsPrefix == <<"u", "p", "l", "o", "a", "d", "s", "/">>

\* a key built without the random id
FileKeyNoUuid(userId, uuid, fileName) == UploadsPrefix \o userId \o <<"/">> \o fileName

\* `uploads/${userId}/${uuidv4()}-${fileName}`
FileKey(userId, uuid, fileName) == UploadsPrefix \o userId \o <<"/">> \o uuid \o <<"-">> \o fileName

\* generateUploadUrl: the key and what the signed PUT is scoped to
GenerateUploadUrl(params, uuid) ==
  LET fileKey == FileKey(params.userId, uuid, params.fileName)
  IN  [uploadUrl |-> [Key |-> fileKey, ContentType |-> params.fileType, ContentLength |-> params.fileSize,
                      expiresIn |-> 300],
       fileKey |-> fileKey,
       expiresIn |-> 300]

PresignFileNames == {Null, <<" ">>, <<"f">>, <<"a", "/", "b">>, <<".", ".">>}

PresignFileTypes == ALLOWED_FILE_TYPES \cup {"application/x-executable", ""}

PresignFileSizes == {0, 1, MAX_FILE_SIZE, MAX_FILE_SIZE + 1}

PresignUserIds == {Null, S1.id, S2.id}

PresignBodies == [fileName : PresignFileNames, fileType : PresignFileTypes, fileSize : PresignFileSizes, userId : PresignUserIds]

\* the random ids handed out so far
UsedUuids == {grants[i].uuid : i \in 1..Len(grants)}

\* POST /api/upload/presigned-url
Presign(body) ==
  /\ last = NoResponse
  /\ IF ~PresignedUrlSchemaOk(body) \/ ~ValidateFileOnServer(body.fileName, body.fileSize, body.fileType)
       THEN /\ last' = Response("presign", 400, body, Null)
            /\ UNCHANGED grants
       ELSE /\ Len(grants) < MaxGrants
            /\ \E uuid \in UuidPool \ UsedUuids :
                 LET uploadResponse == GenerateUploadUrl(body, uuid)
                 IN  /\ grants' = Append(grants, [userId |-> body.userId, fileName |-> body.fileName,
                                                  uuid |-> uuid, fileKey |-> uploadResponse.fileKey])
                     /\ last' = Response("presign", 200, body, Some(uploadResponse))
  /\ UNCHANGED <<users, files, now, reg, apr, lst, ui, hook>>

NextGrant ==
  \/ \E body \in PresignBodies : Presign(body)
  \/ Respond

SpecGrant == Init /\ [][NextGrant]_vars

(***************************************************************************)
(* Properties of upload grants, checked under SpecGrant.                  *)
(***************************************************************************)
\* C9 as stated: the request is answered 400 for every size above 15 MiB and
\* every type outside the allowed six, and answered 200 with a key under
\* uploads/{userId}/ for every size in (0, 15 MiB] with an allowed type, a
\* non-empty file name and a non-empty user id.
C9_GrantForEveryNonEmptyName ==
  last.op = "presign" =>
    /\ last.req.fileSize > 15 * 1024 * 1024 => last.code = 400
    /\ last.req.fileType \notin ALLOWED_FILE_TYPES => last.code = 400
    /\ (/\ last.req.fileSize > 0
        /\ last.req.fileSize <= 15 * 1024 * 1024
        /\ last.req.fileType \in ALLOWED_FILE_TYPES
        /\ last.req.fileName # Null
        /\ last.req.userId # Null)
         => /\ last.code = 200
            /\ StartsWith(last.res[1].fileKey, UploadsPrefix \o last.req.userId \o <<"/">>)

NameAccepted(fileName) ==
  /\ fileName # Null
  /\ \E i \in 1..Len(fileName) : fileName[i] # " "
  /\ \A i \in 1..Len(fileName) : fileName[i] \notin {"/", "\\", "<", ">", ":", "\"", "|", "?", "*"}
  /\ \A i \in 1..(Len(fileName) - 1) : ~(fileName[i] = "." /\ fileName[i + 1] = ".")

\* C9 amended: as stated, with success promised only for a file name that is
\* not blank and contains none of .. / \ < > : " | ? *
C9_GrantForEveryAcceptedName ==
  last.op = "presign" =>
    /\ last.req.fileSize > 15 * 1024 * 1024 => last.code = 400
    /\ last.req.fileType \notin ALLOWED_FILE_TYPES => last.code = 400
    /\ (/\ last.req.fileSize > 0
        /\ last.req.fileSize <= 15 * 1024 * 1024
        /\ last.req.fileType \in ALLOWED_FILE_TYPES
        /\ NameAccepted(last.req.fileName)
        /\ last.req.userId # Null)
         => /\ last.code = 200
            /\ StartsWith(last.res[1].fileKey, UploadsPrefix \o last.req.userId \o <<"/">>)

\* a grant was issued for a file of exactly 15 MiB
C9_Witness ==
  /\ last.op = "presign"
  /\ last.code = 200
  /\ last.req.fileSize = 15 * 1024 * 1024
  /\ last.req.fileType = "image/jpg"
  /\ StartsWith(last.res[1].fileKey, UploadsPrefix \o last.req.userId \o <<"/">>)

\* /^[0-9a-f]{8}-[0-9a-f]{4}-[0-9a-f]{4}-[0-9a-f]{4}-[0-9a-f]{12}$/
LooksLikeUuid(u) ==
  /\ Len(u) = 36
  /\ \A i \in 1..36 : IF i \in {9, 14, 19, 24} THEN u[i] = "-" ELSE u[i] \in HexDigits

\* C10: every key issued is uploads/ + userId + / + a 36-character random id
\* + - + fileName for the userId and fileName of its request, and no two
\* grants carry the same key.
C10_KeysShapedAndDistinct ==
  /\ \A i \in 1..Len(grants) :
       LET g == grants[i]
           head == UploadsPrefix \o g.userId \o <<"/">>
       IN  /\ StartsWith(g.fileKey, head)
           /\ Len(g.fileKey) = Len(head) + 36 + 1 + Len(g.fileName)
           /\ LooksLikeUuid(SubSeq(g.fileKey, Len(head) + 1, Len(head) + 36))
           /\ g.fileKey[Len(head) + 37] = "-"
           /\ SubSeq(g.fileKey, Len(head) + 38, Len(g.fileKey)) = g.fileName
  /\ \A i, j \in 1..Len(grants) : i # j => grants[i].fileKey # grants[j].fileKey

\* two grants were issued for the same user and the same file name
C10_Witness ==
  \E i, j \in 1..Len(grants) :
    /\ i # j
    /\ grants[i].userId = grants[j].userId
    /\ grants[i].fileName = grants[j].fileName

(***************************************************************************)
(* Reading submissions: GET /api/admin/submissions,                        *)
(* GET /api/admin/student/{id} and GET /api/files/user/{userId}.           *)
(***************************************************************************)
UpperLetters ==
  <<"A", "B", "C", "D", "E", "F", "G", "H", "I", "J", "K", "L", "M",
    "N", "O", "P", "Q", "R", "S", "T", "U", "V", "W", "X", "Y", "Z">>

LowerLetters ==
  <<"a", "b", "c", "d", "e", "f", "g", "h", "i", "j", "k", "l", "m",
    "n", "o", "p", "q", "r", "s", "t", "u", "v", "w", "x", "y", "z">>

ToLowerCase(s) ==
  [i \in 1..Len(s) |-> IF \E k \in 1..26 : UpperLetters[k] = s[i]
                         THEN LowerLetters[CHOOSE k \in 1..26 : UpperLetters[k] = s[i]]
                         ELSE s[i]]

\* { contains: search } without mode: "insensitive"
ContainsSensitive(s, search) == Includes(s, search)

\* { contains: search, mode: "insensitive" }
Contains(s, search) == Includes(ToLowerCase(s), ToLowerCase(search))

\* handleAuthError(error).statusCode for a thrown Error with this message
HandleAuthError(message) ==
  IF message = AuthenticationRequired
    THEN 401
    ELSE IF message = InsufficientPermissions THEN 403 ELSE 500

\* searchParams.get(name) || fallback
OrDefault(param, fallback) == IF param = Null THEN fallback ELSE param[1]

\* the whereClause of GET (submissions) accepts the row
WhereClause(f, us, status, search) ==
  /\ (status # "" /\ status # "ALL") => f.status = status
  /\ search # Null =>
       \E u \in us :
         /\ u.id = f.userId
         /\ \/ Contains(u.name, search[1])
            \/ Contains(u.email, search[1])
            \/ Contains(u.cccd, search[1])

\* orderBy: { uploadedAt: 'desc' }: the orders the store may return the rows in
OrderByUploadedAtDesc(rows) ==
  {s \in [1..Cardinality(rows) -> rows] :
     /\ \A i, j \in 1..Cardinality(rows) : i # j => s[i] # s[j]
     /\ \A i \in 1..(Cardinality(rows) - 1) : s[i].uploadedAt >= s[i + 1].uploadedAt}

\* skip: offset, take: limit
SkipTake(s, offset, limit) ==
  IF offset >= Len(s)
    THEN <<>>
    ELSE SubSeq(s, offset + 1, IF offset + limit <= Len(s) THEN offset + limit ELSE Len(s))

\* Math.ceil(totalCount / limit)
CeilDiv(a, b) == (a + b - 1) \div b

\* the columns of a row the listing selects
SelectListed(f) == [id |-> f.id, status |-> f.status, uploadedAt |-> f.uploadedAt, user |-> [id |-> f.userId]]

\* findMany: the selected columns of the rows of the page, in the order the store returned them
FindMany(ordered, offset, limit) ==
  [i \in 1..Len(SkipTake(ordered, offset, limit)) |-> SelectListed(SkipTake(ordered, offset, limit)[i])]

\* the body of the 200 response of GET (submissions)
ListPayload(submissions, totalCount, page, limit) ==
  [submissions |-> submissions,
   totalCount |-> totalCount,
   totalPages |-> CeilDiv(totalCount, limit),
   currentPage |-> page,
   limit |-> limit,
   hasNextPage |-> page < CeilDiv(totalCount, limit),
   hasPrevPage |-> page > 1]

\* the status the route answers before it reads the query, 0 when the caller is let through
ListAuthStatus(variant, session) ==
  IF variant = "verifyAuthorization"
    THEN LET err == VerifyAuthorization(session, "TEACHER")
         IN  IF err = Null THEN 0 ELSE HandleAuthError(err[1])
    ELSE IF session = NoSession \/ session[1].user.role # "TEACHER" THEN 401 ELSE 0

ListVariants == {"verifyAuthorization", "getSession"}

ListStatuses == {"", "ALL", "APPROVED", "approved"}

ListSearches == {Null, Some(<<"X">>), Some(<<"3">>)}

ListPages == {[page |-> Null, limit |-> Null], [page |-> Some(2), limit |-> Some(1)]}

\* the requests tried: every filter for teacher T1, the plain listing for everyone under both routes
ListQueries ==
  {[variant |-> "verifyAuthorization", session |-> SessionOf(T1), status |-> st, search |-> se,
    page |-> pg.page, limit |-> pg.limit] : st \in ListStatuses, se \in ListSearches, pg \in ListPages}
    \cup {[variant |-> v, session |-> s, status |-> "", search |-> Null, page |-> Null, limit |-> Null] :
            v \in ListVariants, s \in Sessions}

\* GET /api/admin/submissions
ListSubmissions(q) ==
  LET denied == ListAuthStatus(q.variant, q.session)
      page == OrDefault(q.page, 1)
      limit == OrDefault(q.limit, 10)
      offset == (page - 1) * limit
  IN  /\ last = NoResponse
      /\ IF denied # 0
           THEN last' = Response("listSubmissions", denied, q, Null)
           ELSE IF q.status # "" /\ q.status # "ALL" /\ q.status \notin FileStatus
                  THEN last' = Response("listSubmissions", 500, q, Null)
                  ELSE LET matching == {f \in files : WhereClause(f, users, q.status, q.search)}
                           totalCount == Cardinality(matching)
                       IN  \E ordered \in OrderByUploadedAtDesc(matching) :
                             last' = Response("listSubmissions", 200, q,
                                              Some(ListPayload(FindMany(ordered, offset, limit), totalCount, page, limit)))
      /\ UNCHANGED <<users, files, now, grants, reg, apr, lst, ui, hook>>

\* the catch block of GET (student): the status answered for a thrown Error with this message
StudentCatch(message) ==
  IF Includes(message, <<"a", "u", "t", "h", "o", "r", "i", "z", "a", "t", "i", "o", "n">>) THEN 403 ELSE 500

\* findFirst without the where clause
FindFirstAnyOwner(fs, id) == {f \in fs : \A g \in fs : f.uploadedAt >= g.uploadedAt}

\* prisma.file.findFirst({ where: { userId: id }, orderBy: { uploadedAt: 'desc' } }): the rows it can return
FindFirstByUser(fs, id) ==
  {f \in fs : f.userId = id /\ \A g \in fs : g.userId = id => f.uploadedAt >= g.uploadedAt}

BlankId == <<" ">>

StudentIds == {S1.id, S2.id, T1.id, BlankId}

\* the requests tried: a teacher's for each id, anyone else's for S1
StudentRequests ==
  {[session |-> SessionOf(T1), id |-> id] : id \in StudentIds}
    \cup {[session |-> s, id |-> S1.id] : s \in Sessions}

\* GET /api/admin/student/{id}
GetByUser(r) ==
  LET err == VerifyAuthorization(r.session, "TEACHER")
  IN  /\ last = NoResponse
      /\ IF err # Null
           THEN last' = Response("getByUser", StudentCatch(err[1]), r, Null)
           ELSE IF r.id = Null \/ IsBlank(r.id)
                  THEN last' = Response("getByUser", 400, r, Null)
                  ELSE IF FindFirstByUser(files, r.id) = {}
                         THEN last' = Response("getByUser", 404, r, Null)
                         ELSE \E submission \in FindFirstByUser(files, r.id) :
                                last' = Response("getByUser", 200, r,
                                                 Some([id |-> submission.id,
                                                       user |-> [id |-> submission.userId],
                                                       uploadedAt |-> submission.uploadedAt,
                                                       status |-> submission.status]))
      /\ UNCHANGED <<users, files, now, grants, reg, apr, lst, ui, hook>>

\* the columns of a row the self-view selects
SelectOwn(f) == [id |-> f.id, status |-> f.status, uploadedAt |-> f.uploadedAt]

UserFilesRequests == [session : {NoSession, SessionOf(S1), SessionOf(T1)}, userId : {Null, S1.id, S2.id}]

\* GET /api/files/user/{userId}
FilesByUser(r) ==
  /\ last = NoResponse
  /\ IF r.userId = Null
       THEN last' = Response("filesByUser", 400, r, Null)
       ELSE \E ordered \in OrderByUploadedAtDesc({f \in files : f.userId = r.userId}) :
              last' = Response("filesByUser", 200, r,
                               Some([files |-> [i \in 1..Len(ordered) |-> SelectOwn(ordered[i])],
                                     count |-> Len(ordered)]))
  /\ UNCHANGED <<users, files, now, grants, reg, apr, lst, ui, hook>>

\* the uploads and decisions that fill the store read by the listings
ViewUploadBodies ==
  {BaseUpload,
   [BaseUpload EXCEPT !.userId = S2.id, !.fileSize = MAX_FILE_SIZE + 1, !.mimeType = "application/x-executable"]}

ViewApprovalRequests ==
  [session : {SessionOf(T1)}, body : [fileId : {Cuid(k) : k \in 1..MaxFiles}, status : {"APPROVED", "PENDING"}]]
    \cup {[session |-> s, body |-> [fileId |-> Cuid(1), status |-> "REJECTED"]] : s \in Sessions}

NextView ==
  \/ \E body \in ViewUploadBodies : RecordUpload(body)
  \/ \E r \in ViewApprovalRequests : SetStatus(r)
  \/ Tick
  \/ \E q \in ListQueries : ListSubmissions(q)
  \/ \E r \in StudentRequests : GetByUser(r)
  \/ \E r \in UserFilesRequests : FilesByUser(r)
  \/ Respond

SpecView == Init /\ [][NextView]_vars

(***************************************************************************)
(* Properties of the reading endpoints, checked under SpecView.           *)
(***************************************************************************)
\* C12: a listing request made with a STUDENT session is answered 403 and one
\* made without a session is answered 401; neither carries a list.
C12_ListingAuthStatuses ==
  last.op = "listSubmissions" =>
    /\ (last.req.session # NoSession /\ last.req.session[1].user.role = "STUDENT")
         => last.code = 403 /\ last.res = Null
    /\ last.req.session = NoSession => last.code = 401 /\ last.res = Null

\* C13: at the approval endpoint and the student-detail endpoint a request
\* without a session is answered 401 and a request with a session whose role
\* is not TEACHER is answered 403; neither is answered 500.
C13_AuthFailuresMapped ==
  last.op \in {"setStatus", "getByUser"} =>
    /\ last.req.session = NoSession => last.code = 401
    /\ (last.req.session # NoSession /\ last.req.session[1].user.role # "TEACHER") => last.code = 403

\* the owner of the row matches the term in name, e-mail or identifier, letter case ignored
OwnerMatches(f, term) ==
  \E u \in users :
    /\ u.id = f.userId
    /\ \E s \in {u.name, u.email, u.cccd} : Includes(ToLowerCase(s), ToLowerCase(term))

\* C16: a listing request of a teacher with no status filter, the filter ALL or
\* a status of the enumeration is answered 200; with M the submissions that
\* have the filter's status (any status for none or ALL) and, when a search
\* term is given, whose owner's name, e-mail or identifier contains the term
\* in any letter case: totalCount is the size of M, every returned row is in M,
\* no row is returned twice, the rows are in descending uploadedAt order and
\* are the rows at positions offset+1.. of such an order of M, and a page that
\* can hold all of M returns exactly M.
C16_ListingFiltersAndOrder ==
  (/\ last.op = "listSubmissions"
   /\ IsTeacherSession(last.req.session)
   /\ last.req.status \in {"", "ALL", "PENDING", "APPROVED", "REJECTED"})
    => /\ last.code = 200
       /\ LET M == {f \in files :
                      /\ last.req.status \in {"", "ALL"} \/ f.status = last.req.status
                      /\ last.req.search = Null \/ OwnerMatches(f, last.req.search[1])}
              rows == last.res[1].submissions
              limit == last.res[1].limit
              offset == (last.res[1].currentPage - 1) * limit
              expected == IF Cardinality(M) <= offset THEN 0
                          ELSE IF Cardinality(M) - offset <= limit THEN Cardinality(M) - offset ELSE limit
          IN  /\ last.res[1].totalCount = Cardinality(M)
              /\ Len(rows) = expected
              /\ \A i \in 1..Len(rows) :
                   /\ \E f \in M : f.id = rows[i].id /\ f.status = rows[i].status
                                     /\ f.uploadedAt = rows[i].uploadedAt /\ f.userId = rows[i].user.id
                   /\ Cardinality({f \in M : f.uploadedAt > rows[i].uploadedAt}) <= offset + i - 1
                   /\ Cardinality({f \in M : f.uploadedAt >= rows[i].uploadedAt}) >= offset + i
              /\ \A i, j \in 1..Len(rows) : i < j => rows[i].id # rows[j].id /\ rows[i].uploadedAt >= rows[j].uploadedAt
              /\ (offset = 0 /\ limit >= Cardinality(M)) => {rows[i].id : i \in 1..Len(rows)} = FileIds(M)

\* the approved submissions of the owner whose identifier contains 3 were listed:
\* one row, while another owner also has an approved submission
C16_Witness ==
  /\ last.op = "listSubmissions"
  /\ last.code = 200
  /\ last.req.status = "APPROVED"
  /\ last.req.search = Some(<<"3">>)
  /\ Len(last.res[1].submissions) = 1
  /\ last.res[1].submissions[1].user.id = S1.id
  /\ \E f \in files : f.userId = S2.id /\ f.status = "APPROVED"

C18_SelfViewOwnershipScoped ==
  (last.op = "filesByUser" /\ last.req.userId # Null) =>
    IF last.req.session # NoSession /\ last.req.session[1].user.id = last.req.userId
      THEN /\ last.code = 200
           /\ {last.res[1].files[i].id : i \in 1..Len(last.res[1].files)}
                = FileIds({f \in files : f.userId = last.req.userId})
           /\ \A i, j \in 1..Len(last.res[1].files) :
                i < j => last.res[1].files[i].uploadedAt >= last.res[1].files[j].uploadedAt
      ELSE last.res = Null \/ last.res[1].files = <<>>

(***************************************************************************)
(* Concurrent decisions: two PUT /api/admin/approval requests whose        *)
(* findUnique and update statements interleave at the store.              *)
(***************************************************************************)
\* an approval call that returned: its request, the HTTP status and the data it wrote
AprDone(r, code, data) == [pc |-> "done", req |-> r, code |-> code, data |-> data]

\* the requests tried: both teachers and a student, each stored id and an absent one, each status
ConcRequests ==
  [session : {SessionOf(T1), SessionOf(T2), SessionOf(S1)},
   body : [fileId : {Cuid(k) : k \in 1..MaxFiles} \cup {AbsentFileId}, status : FileStatus]]

\* PUT (approval) up to the point where prisma.file.update is issued
ApprovalCheck(c, r) ==
  LET err == VerifyAuthorization(r.session, "TEACHER")
      fileId == r.body.fileId
      status == r.body.status
  IN  /\ apr[c].pc = "idle"
      /\ \A d \in AprCalls : d < c => apr[d].pc # "idle"
      /\ IF err # Null
           THEN apr' = [apr EXCEPT ![c] = AprDone(r, ApprovalCatch(err[1]), Null)]
           ELSE IF ~FileIdPresent(fileId) \/ ~StatusOk(status) \/ ~CuidRegexTest(fileId)
                  THEN apr' = [apr EXCEPT ![c] = AprDone(r, 400, Null)]
                  ELSE IF ~\E f \in files : f.id = fileId
                         THEN apr' = [apr EXCEPT ![c] = AprDone(r, 404, Null)]
                         ELSE apr' = [apr EXCEPT ![c] = [pc |-> "update", req |-> r,
                                                         data |-> UpdateData(status, r.session[1].user.id, now)]]
      /\ UNCHANGED <<users, files, now, grants, reg, lst, ui, hook, last>>

\* prisma.file.update of PUT (approval) and the response
ApprovalUpdate(c) ==
  /\ apr[c].pc = "update"
  /\ LET r == apr[c].req
         found == {f \in files : f.id = r.body.fileId}
     IN  IF found = {}
           THEN /\ apr' = [apr EXCEPT ![c] = AprDone(r, 404, Null)]
                /\ UNCHANGED files
           ELSE LET row == CHOOSE f \in found : TRUE
                IN  /\ files' = (files \ {row}) \cup {FileUpdate(row, apr[c].data)}
                    /\ apr' = [apr EXCEPT ![c] = AprDone(r, 200, Some(apr[c].data))]
  /\ UNCHANGED <<users, now, grants, reg, lst, ui, hook, last>>

NextConc ==
  \/ \E body \in ViewUploadBodies : RecordUpload(body)
  \/ \E c \in AprCalls : \E r \in ConcRequests : ApprovalCheck(c, r)
  \/ \E c \in AprCalls : ApprovalUpdate(c)
  \/ Tick
  \/ Respond

SpecConc == Init /\ [][NextConc]_vars

(***************************************************************************)
(* Properties of concurrent decisions, checked under SpecConc.            *)
(***************************************************************************)
Triple(x) == <<x.status, x.approvedAt, x.approvedBy>>

\* C14: with two setStatus calls of teachers in flight, in every interleaving
\* of their lookups and updates: a call for an existing submission and a valid
\* status passes its lookup and its update is answered 200; right after an
\* update commits, the stored (status, approvedAt, approvedBy) of the
\* submission is the triple of that update and nothing else has changed; and
\* once both calls on one submission have returned, the stored triple is
\* wholly the triple of one of them.
C14_LastWriterWins ==
  /\ [][\A c \in AprCalls :
          /\ (/\ apr[c].pc = "idle"
              /\ apr'[c].pc # "idle"
              /\ IsTeacherSession(apr'[c].req.session)
              /\ apr'[c].req.body.fileId \in FileIds(files))
               => apr'[c].pc = "update" /\ files' = files
          /\ (apr[c].pc = "update" /\ apr'[c].pc = "done")
               => /\ apr'[c].code = 200
                  /\ apr'[c].data = Some(apr[c].data)
                  /\ \E f \in files : \E g \in files' :
                       /\ f.id = apr[c].req.body.fileId
                       /\ g.id = f.id
                       /\ Triple(g) = Triple(apr[c].data)
                       /\ files' \ {g} = files \ {f}
                       /\ \A k \in DOMAIN f \ {"status", "approvedAt", "approvedBy"} : g[k] = f[k]]_vars
  /\ [](\A c, d \in AprCalls :
          (/\ c # d
           /\ apr[c].pc = "done" /\ apr[c].code = 200
           /\ apr[d].pc = "done" /\ apr[d].code = 200
           /\ apr[c].req.body.fileId = apr[d].req.body.fileId)
            => \E f \in files :
                 /\ f.id = apr[c].req.body.fileId
                 /\ Triple(f) \in {Triple(apr[c].data[1]), Triple(apr[d].data[1])})

\* T1 prepared an approval, T2 then prepared a rejection of the same submission
\* at a later instant and committed it, and T1's update committed last
C14_Witness ==
  /\ apr[1].pc = "done" /\ apr[1].code = 200
  /\ apr[2].pc = "done" /\ apr[2].code = 200
  /\ apr[1].req.body.fileId = apr[2].req.body.fileId
  /\ apr[1].req.session = SessionOf(T1) /\ apr[1].req.body.status = "APPROVED"
  /\ apr[2].req.session = SessionOf(T2) /\ apr[2].req.body.status = "REJECTED"
  /\ apr[1].data[1].approvedAt[1] < apr[2].data[1].approvedAt[1]
  /\ \E f \in files : f.id = apr[1].req.body.fileId /\ Triple(f) = <<"APPROVED", apr[1].data[1].approvedAt, Some(T1.id)>>

(***************************************************************************)
(* verifyAuthorization on its own, for every session and every required   *)
(* role or array of roles.                                                 *)
(***************************************************************************)
AuthSessions == {NoSession} \cup {SessionOf(u) : u \in InitUsers}

\* the arrays of at most two roles
RoleArrays == {<<>>} \cup {<<a>> : a \in UserRole} \cup {<<a, b>> : a, b \in UserRole}

\* a route calls verifyAuthorization(request, requiredRole) and maps what it throws with handleAuthError
Authorize(session, requiredRole) ==
  LET err == VerifyAuthorization(session, requiredRole)
  IN  /\ last = NoResponse
      /\ last' = Response("verifyAuthorization",
                          IF err = Null THEN 200 ELSE HandleAuthError(err[1]),
                          [session |-> session, requiredRole |-> requiredRole],
                          [thrown |-> err, returned |-> IF err = Null THEN session ELSE Null])
      /\ UNCHANGED <<users, files, now, grants, reg, apr, lst, ui, hook>>

NextAuth ==
  \/ \E session \in AuthSessions : \E requiredRole \in UserRole : Authorize(session, requiredRole)
  \/ \E session \in AuthSessions : \E requiredRole \in RoleArrays : Authorize(session, requiredRole)
  \/ \E body \in ViewUploadBodies : RecordUpload(body)
  \/ Respond

SpecAuth == Init /\ [][NextAuth]_vars

(***************************************************************************)
(* Properties of verifyAuthorization, checked under SpecAuth.             *)
(***************************************************************************)
\* C19: verifyAuthorization throws "Authentication required" (mapped to 401)
\* when there is no session, whatever role is required; throws "Insufficient
\* permissions" (mapped to 403) when there is a session whose role is missing,
\* differs from the required role or is not in the required array; otherwise
\* returns the session; and a call changes no user and no submission.
C19_VerifyAuthorization ==
  /\ [](last.op = "verifyAuthorization" =>
          LET session == last.req.session
              required == last.req.requiredRole
              allowed == /\ session # NoSession
                         /\ session[1].user.role # ""
                         /\ IF required \in Seq({"STUDENT", "TEACHER", "ADMIN"})
                              THEN \E i \in 1..Len(required) : required[i] = session[1].user.role
                              ELSE required = session[1].user.role
          IN  /\ session = NoSession =>
                   last.res.thrown = Some(AuthenticationRequired) /\ last.code = 401 /\ last.res.returned = Null
              /\ (session # NoSession /\ ~allowed) =>
                   last.res.thrown = Some(InsufficientPermissions) /\ last.code = 403 /\ last.res.returned = Null
              /\ allowed => last.res.thrown = Null /\ last.res.returned = session)
  /\ [][last'.op = "verifyAuthorization" => (users' = users /\ files' = files)]_vars

\* an ADMIN session was let through by the array [TEACHER, ADMIN] while a submission is stored
C19_Witness ==
  /\ last.op = "verifyAuthorization"
  /\ last.req.session = SessionOf(A1)
  /\ last.req.requiredRole \in Seq(UserRole)
  /\ last.req.requiredRole = <<"TEACHER", "ADMIN">>
  /\ last.res.returned = SessionOf(A1)
  /\ files # {}

(***************************************************************************)
(* Grants and recorded uploads together: POST /api/upload/presigned-url    *)
(* and POST /api/upload/complete served in any order.                     *)
(***************************************************************************)
\* the grant requests tried: two files of S1, one of S2, one refused
GrantBodies ==
  {[fileName |-> <<"f">>, fileType |-> "application/pdf", fileSize |-> 1, userId |-> S1.id],
   [fileName |-> <<"g">>, fileType |-> "image/png", fileSize |-> MAX_FILE_SIZE, userId |-> S1.id],
   [fileName |-> <<"f">>, fileType |-> "application/pdf", fileSize |-> 1, userId |-> S2.id],
   [fileName |-> <<"f">>, fileType |-> "application/pdf", fileSize |-> MAX_FILE_SIZE + 1, userId |-> S1.id]}

NextUpload ==
  \/ \E body \in GrantBodies : Presign(body)
  \/ \E body \in UploadBodies : RecordUpload(body)
  \/ Respond

SpecUpload == Init /\ [][NextUpload]_vars

GrantedKeys == {grants[i].fileKey : i \in 1..Len(grants)}

\* C22: recording an upload does not depend on a grant and issuing a grant
\* records nothing: a recordUpload request with a non-empty key, name and
\* owner id of an existing user, a positive size and a non-empty type is
\* answered 201 and stores a submission under its key whether or not the key
\* was ever granted, and leaves the grants as they are; a presigned-URL
\* request stores no submission.
C22_RecordingNotTiedToGrant ==
  /\ [][(/\ last'.op = "recordUpload"
         /\ last' # last
         /\ last'.req.fileKey # <<>>
         /\ last'.req.fileName # <<>>
         /\ last'.req.fileSize >= 1
         /\ last'.req.mimeType # ""
         /\ \E u \in users : u.id = last'.req.userId)
          => /\ last'.code = 201
             /\ \E f \in files' \ files : f.s3ObjectId = last'.req.fileKey /\ last'.res = Some(f.id)
             /\ grants' = grants]_vars
  /\ [][(last'.op = "presign" /\ last' # last) => files' = files]_vars

\* a submission is stored under a key that was never granted, and a grant was
\* issued under whose key no submission is stored
C22_Witness ==
  /\ \E f \in files : f.s3ObjectId \notin GrantedKeys
  /\ \E k \in GrantedKeys : \A f \in files : f.s3ObjectId # k
  /\ Cardinality(files) = MaxFiles

(***************************************************************************)
(* Paging through GET /api/admin/submissions, and a listing whose two      *)
(* queries (findMany and count, started together by Promise.all) are       *)
(* interleaved with writes of other requests.                              *)
(***************************************************************************)
\* the listings paged through: by teacher T1, every status or the pending ones, one or two rows a page
PageQueries ==
  [variant : {"verifyAuthorization"}, session : {SessionOf(T1)}, status : {"", "PENDING"}, search : {Null},
   limit : {Some(1), Some(2)}]

\* a client requests page 1, page 2, ... up to the page after the last one, while the store does not change
ListAllPages(q) ==
  LET limit == OrDefault(q.limit, 10)
      matching == {f \in files : WhereClause(f, users, q.status, q.search)}
      totalCount == Cardinality(matching)
      requested == 1..(CeilDiv(totalCount, limit) + 1)
  IN  /\ last = NoResponse
      /\ lst.pc = "idle"
      /\ ListAuthStatus(q.variant, q.session) = 0
      /\ \E ordered \in [requested -> OrderByUploadedAtDesc(matching)] :
           last' = Response("listAllPages", 200, q,
                            Some([page \in requested |->
                                    ListPayload(FindMany(ordered[page], (page - 1) * limit, limit),
                                                totalCount, page, limit)]))
      /\ UNCHANGED <<users, files, now, grants, reg, apr, lst, ui, hook>>

\* GET (submissions) up to Promise.all: the caller is let through and both queries are started
ListBegin(q) ==
  /\ lst.pc = "idle"
  /\ last = NoResponse
  /\ ListAuthStatus(q.variant, q.session) = 0
  /\ lst' = [pc |-> "queries", q |-> q, submissions |-> Null, seen |-> Null, totalCount |-> Null]
  /\ UNCHANGED <<users, files, now, grants, reg, apr, ui, hook, last>>

\* the store runs prisma.file.findMany of the listing in flight; seen is the number of rows
\* that matched the filter in the state it read
ListFindMany ==
  /\ lst.pc = "queries"
  /\ lst.submissions = Null
  /\ LET q == lst.q
         limit == OrDefault(q.limit, 10)
         offset == (OrDefault(q.page, 1) - 1) * limit
         matching == {f \in files : WhereClause(f, users, q.status, q.search)}
     IN  \E ordered \in OrderByUploadedAtDesc(matching) :
           lst' = [lst EXCEPT !.submissions = Some(FindMany(ordered, offset, limit)),
                              !.seen = Some(Cardinality(matching))]
  /\ UNCHANGED <<users, files, now, grants, reg, apr, ui, hook, last>>

\* the store runs prisma.file.count of the listing in flight
ListCount ==
  /\ lst.pc = "queries"
  /\ lst.totalCount = Null
  /\ lst' = [lst EXCEPT !.totalCount =
               Some(Cardinality({f \in files : WhereClause(f, users, lst.q.status, lst.q.search)}))]
  /\ UNCHANGED <<users, files, now, grants, reg, apr, ui, hook, last>>

\* both queries have returned: the response is built and sent
ListReturn ==
  /\ lst.pc = "queries"
  /\ lst.submissions # Null
  /\ lst.totalCount # Null
  /\ last = NoResponse
  /\ last' = Response("listSubmissions", 200, lst.q,
                      Some(ListPayload(lst.submissions[1], lst.totalCount[1],
                                       OrDefault(lst.q.page, 1), OrDefault(lst.q.limit, 10))))
  /\ lst' = IdleCall
  /\ UNCHANGED <<users, files, now, grants, reg, apr, ui, hook>>

\* the listings served with interleaving: by teacher T1, every status or the pending ones, first page
ConcListQueries ==
  [variant : {"verifyAuthorization"}, session : {SessionOf(T1)}, status : {"", "PENDING"}, search : {Null},
   page : {Null}, limit : {Null, Some(1)}]

NextList ==
  \/ \E body \in ViewUploadBodies : RecordUpload(body)
  \/ Tick
  \/ \E q \in PageQueries : ListAllPages(q)
  \/ \E q \in ConcListQueries : ListBegin(q)
  \/ ListFindMany
  \/ ListCount
  \/ ListReturn
  \/ Respond

SpecList == Init /\ [][NextList]_vars

(***************************************************************************)
(* Properties of paging and of the interleaved listing, under SpecList.   *)
(***************************************************************************)
\* C25: with M the submissions matching the filter and the store unchanged
\* between the requests, page p of limit L holds the rows at positions
\* (p-1)*L+1 .. p*L of one newest-first list of M (at most L rows),
\* totalPages is ceil(|M| / L), hasNextPage holds exactly when p < totalPages
\* and hasPrevPage exactly when p > 1, and pages 1..totalPages together hold
\* every submission of M exactly once.
C25_PagesPartitionTheListing ==
  last.op = "listAllPages" =>
    LET pages == last.res[1]
        L == last.req.limit[1]
        M == {f \in files : last.req.status = "" \/ f.status = last.req.status}
        totalPages == (Cardinality(M) + L - 1) \div L
        slots == {<<p, i>> \in (1..totalPages) \X (1..L) : i <= Len(pages[p].submissions)}
    IN  /\ \A p \in DOMAIN pages :
             /\ pages[p].totalPages = totalPages
             /\ pages[p].hasNextPage <=> p < totalPages
             /\ pages[p].hasPrevPage <=> p > 1
             /\ Len(pages[p].submissions) =
                  IF p * L <= Cardinality(M) THEN L
                  ELSE IF (p - 1) * L >= Cardinality(M) THEN 0 ELSE Cardinality(M) - (p - 1) * L
        /\ {pages[s[1]].submissions[s[2]].id : s \in slots} = FileIds(M)
        /\ \A s, u \in slots :
             /\ s # u => pages[s[1]].submissions[s[2]].id # pages[u[1]].submissions[u[2]].id
             /\ (s[1] < u[1] \/ (s[1] = u[1] /\ s[2] < u[2]))
                  => pages[s[1]].submissions[s[2]].uploadedAt >= pages[u[1]].submissions[u[2]].uploadedAt

\* C26: the totalCount a listing returns is the number of submissions that
\* matched its filter in the store state its rows were read from.
C26_CountMatchesRowsState ==
  (lst.pc = "queries" /\ lst.submissions # Null /\ lst.totalCount # Null)
    => lst.totalCount = lst.seen

(***************************************************************************)
(* The upload page: uploadState and the call of handleUpload in flight.   *)
(* ui.state is uploadState; ui.pc is the await handleUpload is suspended  *)
(* at ("idle" when no call is in flight, "stalled" when uploadPromise can *)
(* no longer settle); ui.granted is the fileKey the presigned-URL request *)
(* returned, ui.put the status of the PUT's load event, ui.sent the       *)
(* fileKey in the body of the completion request, and ui.completed the    *)
(* ok flag of the completion response.                                    *)
(***************************************************************************)
\* validateFile(file) of the browser side
ValidateFile(file) ==
  IF file.size > MAX_FILE_SIZE
    THEN [isValid |-> FALSE, error |-> Some("File size exceeds 15MB limit")]
  ELSE IF file.type \notin ALLOWED_FILE_TYPES
    THEN [isValid |-> FALSE, error |-> Some("File type is not allowed")]
  ELSE IF file.size = 0
    THEN [isValid |-> FALSE, error |-> Some("File is empty")]
  ELSE [isValid |-> TRUE, error |-> Null]

\* the files the user picks in the file input
PickedFiles ==
  { [name |-> "a.pdf", type |-> "application/pdf", size |-> 3],
    [name |-> "b.png", type |-> "image/png", size |-> 1024],
    [name |-> "big.pdf", type |-> "application/pdf", size |-> MAX_FILE_SIZE + 1],
    [name |-> "c.exe", type |-> "application/x-executable", size |-> 3],
    [name |-> "empty.pdf", type |-> "application/pdf", size |-> 0] }

\* the file input is enabled
FileInputEnabled == ~ui.state.uploading

\* the Upload button is rendered and enabled
UploadButtonEnabled == ~ui.state.success /\ ~(ui.state.file = Null \/ ui.state.uploading)

\* the Remove button or the Upload Another button is rendered
ResetButtonShown ==
  \/ ui.state.file # Null /\ ~ui.state.uploading /\ ~ui.state.success
  \/ ui.state.success

\* handleFileSelect(event) with event.target.files[0] = file
HandleFileSelect(file) ==
  /\ FileInputEnabled
  /\ LET validation == ValidateFile(file)
     IN  ui' = [ui EXCEPT !.state =
                  IF ~validation.isValid
                    THEN [@ EXCEPT !.file = Null, !.error = validation.error]
                    ELSE [@ EXCEPT !.file = Some(file), !.error = Null, !.success = FALSE]]
  /\ UNCHANGED <<users, files, now, grants, reg, apr, lst, hook, last>>

\* handleUpload up to the fetch of /api/upload/presigned-url
HandleUpload ==
  /\ UploadButtonEnabled
  /\ ui.pc = "idle"
  /\ ui' = IF ui.state.file = Null
             THEN [ui EXCEPT !.state.error = Some("No file selected or user not authenticated")]
             ELSE [ui EXCEPT !.state = [@ EXCEPT !.uploading = TRUE, !.progress = 0, !.error = Null],
                             !.pc = "presign", !.granted = Null, !.put = 0, !.sent = Null,
                             !.completed = Null]
  /\ UNCHANGED <<users, files, now, grants, reg, apr, lst, hook, last>>

\* the catch block of handleUpload
Catch(message) ==
  [ui EXCEPT !.state = [@ EXCEPT !.uploading = FALSE, !.error = Some(message), !.progress = 0],
             !.pc = "idle"]

\* the outcomes of a fetch: the promise rejects, or a response arrives with its ok flag
FetchOutcomes == {"rejected", "notOk", "ok"}

\* the fileKey values a presigned-URL response carries
FileKeys == {"uploads/s1/k1.pdf", "uploads/s1/k2.pdf"}

\* the presigned-URL request returns
PresignReturn(outcome, fileKey) ==
  /\ ui.pc = "presign"
  /\ ui' = IF outcome = "rejected" THEN Catch("Failed to fetch")
           ELSE IF outcome = "notOk" THEN Catch("Failed to get upload URL")
           ELSE [ui EXCEPT !.granted = Some(fileKey), !.pc = "put"]
  /\ UNCHANGED <<users, files, now, grants, reg, apr, lst, hook, last>>

\* Math.round((loaded / total) * 100)
ProgressPercent(loaded, total) == (200 * loaded + total) \div (2 * total)

\* a progress event of xhr.upload, after thirds thirds of the bytes were sent
PutProgress(lengthComputable, thirds) ==
  /\ ui.pc = "put"
  /\ LET total == ui.state.file[1].size
         loaded == (thirds * total) \div 3
     IN  ui' = IF lengthComputable
                 THEN [ui EXCEPT !.state.progress = ProgressPercent(loaded, total)]
                 ELSE ui
  /\ UNCHANGED <<users, files, now, grants, reg, apr, lst, hook, last>>

\* the load listener resolves on any status
PutSucceededAnyStatus(status) == TRUE

\* xhr.status === 200 || xhr.status === 204
PutSucceeded(status) == status = 200 \/ status = 204

\* the status codes the storage service answers the PUT with
PutStatuses == {200, 204, 403, 500}

\* the load event of the PUT; on resolve the completion request is sent with the fileKey of
\* the presigned-URL response
PutLoad(status) ==
  /\ ui.pc = "put"
  /\ ui' = IF PutSucceeded(status)
             THEN [ui EXCEPT !.put = status, !.pc = "complete", !.sent = ui.granted]
             ELSE [Catch("Upload failed with status") EXCEPT !.put = status]
  /\ UNCHANGED <<users, files, now, grants, reg, apr, lst, hook, last>>

\* the error event of the PUT
PutError ==
  /\ ui.pc = "put"
  /\ ui' = Catch("Upload failed")
  /\ UNCHANGED <<users, files, now, grants, reg, apr, lst, hook, last>>

\* the abort event of the PUT (the transfer is cancelled in the browser): no listener is
\* registered for it, so uploadPromise neither resolves nor rejects
PutAbort ==
  /\ ui.pc = "put"
  /\ ui' = [ui EXCEPT !.pc = "stalled"]
  /\ UNCHANGED <<users, files, now, grants, reg, apr, lst, hook, last>>

\* the completion request returns
CompleteReturn(outcome) ==
  /\ ui.pc = "complete"
  /\ ui' = IF outcome = "rejected" THEN [Catch("Failed to fetch") EXCEPT !.completed = Some(FALSE)]
           ELSE IF outcome = "notOk"
             THEN [Catch("Failed to complete upload") EXCEPT !.completed = Some(FALSE)]
           ELSE [ui EXCEPT !.state = [@ EXCEPT !.uploading = FALSE, !.success = TRUE, !.progress = 100],
                           !.pc = "idle", !.completed = Some(TRUE)]
  /\ UNCHANGED <<users, files, now, grants, reg, apr, lst, hook, last>>

\* resetForm
ResetForm ==
  /\ ResetButtonShown
  /\ ui' = [ui EXCEPT !.state = InitialUploadState]
  /\ UNCHANGED <<users, files, now, grants, reg, apr, lst, hook, last>>

NextUi ==
  \/ \E file \in PickedFiles : HandleFileSelect(file)
  \/ HandleUpload
  \/ \E outcome \in FetchOutcomes, fileKey \in FileKeys : PresignReturn(outcome, fileKey)
  \/ \E lengthComputable \in BOOLEAN, thirds \in 0..3 : PutProgress(lengthComputable, thirds)
  \/ \E status \in PutStatuses : PutLoad(status)
  \/ PutError
  \/ PutAbort
  \/ \E outcome \in FetchOutcomes : CompleteReturn(outcome)
  \/ ResetForm

SpecUi == Init /\ [][NextUi]_vars

\* every request handleUpload has in flight is eventually answered, and the PUT eventually ends
\* with one of its events
SpecUiFair ==
  /\ SpecUi
  /\ WF_vars(\E outcome \in FetchOutcomes, fileKey \in FileKeys : PresignReturn(outcome, fileKey))
  /\ WF_vars((\E status \in PutStatuses : PutLoad(status)) \/ PutError \/ PutAbort)
  /\ WF_vars(\E outcome \in FetchOutcomes : CompleteReturn(outcome))

(***************************************************************************)
(* Properties of the upload page, under SpecUi and SpecUiFair.            *)
(***************************************************************************)
\* C27: the three steps of handleUpload run in order, each only after the
\* one before it succeeded: the PUT starts only when the presigned-URL
\* request returned OK with a fileKey; the completion request is sent only
\* from the PUT, when its load event carried status 200 or 204, and its body
\* carries the fileKey of that presigned-URL response; success becomes true
\* only when the completion request returned OK.
C27_StepsInOrder ==
  [][ /\ (ui'.pc = "put" /\ ui.pc # "put") => (ui.pc = "presign" /\ ui'.granted \in {Some(k) : k \in FileKeys})
      /\ (ui'.pc = "complete" /\ ui.pc # "complete")
           => (ui.pc = "put" /\ ui.granted # Null /\ ui'.put \in {200, 204} /\ ui'.sent = ui.granted)
      /\ (ui'.state.success /\ ~ui.state.success)
           => (ui.pc = "complete" /\ ui.put \in {200, 204} /\ ui.sent = ui.granted
               /\ ui'.completed = Some(TRUE)) ]_vars

\* an upload succeeded after a PUT answered 204, with the second fileKey
C27_Witness ==
  /\ ui.state.success
  /\ ui.completed = Some(TRUE)
  /\ ui.put = 204
  /\ ui.granted = Some("uploads/s1/k2.pdf")
  /\ ui.sent = ui.granted

\* C28: every upload handleUpload started ends in the page: once uploading is
\* true it eventually is false again, with success true or an error set.
C28_UploadTerminates ==
  ui.state.uploading ~> (~ui.state.uploading /\ (ui.state.success \/ ui.state.error # Null))

\* C29: in every state of uploadState, success implies that uploading is
\* false, progress is 100 and error is null; an error implies that uploading
\* is false; success and an error are never both present.
C29_UploadStateConsistent ==
  /\ ui.state.success => (~ui.state.uploading /\ ui.state.progress = 100 /\ ui.state.error = Null)
  /\ ui.state.error # Null => ~ui.state.uploading
  /\ ~(ui.state.success /\ ui.state.error # Null)

(***************************************************************************)
(* The useAuthorization hook of a mounted page.  options.requiredRole is  *)
(* Undefined when the option is absent, a role, or an array of roles;     *)
(* hook.redirect is the path the latest run of the effect pushed, Null    *)
(* when it pushed none.                                                    *)
(***************************************************************************)
\* the value of an option that was not given
Undefined == "undefined"

\* !requiredRole
RequiredRoleAbsent(requiredRole) == requiredRole \notin Seq(UserRole) /\ requiredRole = Undefined

\* hasRequiredRole() of the hook body, hasRole() of the effect
HasRequiredRole(session, options) ==
  IF session = NoSession \/ session[1].user.role = NoRole
    THEN options.allowUnauthenticated
    ELSE IF RequiredRoleAbsent(options.requiredRole)
      THEN TRUE
      ELSE IF options.requiredRole \in Seq(UserRole)
        THEN session[1].user.role \in Range(options.requiredRole)
        ELSE session[1].user.role = options.requiredRole

\* isAuthenticated
IsAuthenticated(session) == session # NoSession

\* isAuthorized
IsAuthorized(session, options) == IsAuthenticated(session) /\ HasRequiredRole(session, options)

\* the body of useEffect: the path router.push is called with, Null when it is not called
CheckAuth(isPending, session, options) ==
  IF isPending THEN Null
  ELSE IF ~options.allowUnauthenticated /\ ~IsAuthenticated(session)
    THEN Some(options.redirectTo)
  ELSE IF ~RequiredRoleAbsent(options.requiredRole) /\ IsAuthenticated(session)
          /\ ~HasRequiredRole(session, options)
    THEN IF session[1].user.role = "TEACHER" THEN Some("/dashboard/gv")
         ELSE IF session[1].user.role = "STUDENT" THEN Some("/dashboard/student")
         ELSE Some("/")
  ELSE Null

\* what a render of the hook returns and what its effect pushes
Render(isPending, session, options) ==
  [pc |-> "mounted", options |-> options, isPending |-> isPending, session |-> session,
   isAuthorized |-> IsAuthorized(session, options),
   redirect |-> CheckAuth(isPending, session, options)]

\* the sessions useSession delivers: none, or a user with one of the roles or with no role
HookSessions == {NoSession} \cup {Some([user |-> [id |-> <<"u">>, role |-> r]]) : r \in UserRole \cup {NoRole}}

\* options with requiredRole absent or one role; useTeacherAuth, useStudentAuth and
\* useRequireAuth are among them
RoleOptions ==
  [requiredRole : {Undefined} \cup UserRole, redirectTo : {"/login", "/signin"},
   allowUnauthenticated : BOOLEAN]

\* options with an array of roles
ArrayOptions ==
  [requiredRole : {<<>>, <<"TEACHER">>, <<"TEACHER", "ADMIN">>}, redirectTo : {"/login"},
   allowUnauthenticated : BOOLEAN]

\* a page that calls useAuthorization(options) mounts: the session is still loading
UseAuthorization(options) ==
  /\ hook.pc = "unmounted"
  /\ hook' = Render(TRUE, NoSession, options)
  /\ UNCHANGED <<users, files, now, grants, reg, apr, lst, ui, last>>

\* useSession delivers the session (or a changed one): the hook renders again and the effect runs
SessionLoaded(session) ==
  /\ hook.pc = "mounted"
  /\ hook.isPending \/ session # hook.session
  /\ hook' = Render(FALSE, session, hook.options)
  /\ UNCHANGED <<users, files, now, grants, reg, apr, lst, ui, last>>

\* the page unmounts
Unmount ==
  /\ hook.pc = "mounted"
  /\ hook' = [pc |-> "unmounted"]
  /\ UNCHANGED <<users, files, now, grants, reg, apr, lst, ui, last>>

NextHook ==
  \/ \E options \in RoleOptions : UseAuthorization(options)
  \/ \E options \in ArrayOptions : UseAuthorization(options)
  \/ \E session \in HookSessions : SessionLoaded(session)
  \/ Unmount

SpecHook == Init /\ [][NextHook]_vars

(***************************************************************************)
(* Properties of the hook, under SpecHook.                                *)
(***************************************************************************)
\* the role of the session satisfies requiredRole
C30_RoleSatisfies(role, requiredRole) ==
  IF requiredRole \in Seq(UserRole) THEN \E i \in 1..Len(requiredRole) : requiredRole[i] = role
  ELSE requiredRole = Undefined \/ requiredRole = role

\* C30: with allowUnauthenticated false, no redirect is issued while the
\* session is loading; once it has loaded, every caller for whom
\* isAuthorized is false is redirected, to redirectTo without a session and
\* otherwise to /dashboard/gv for a TEACHER, /dashboard/student for a
\* STUDENT and / for another or a missing role; and isAuthorized is true
\* only with a session whose role satisfies requiredRole.
C30_UnauthorizedRedirected ==
  (hook.pc = "mounted" /\ ~hook.options.allowUnauthenticated) =>
    /\ hook.isPending => hook.redirect = Null
    /\ (~hook.isPending /\ ~hook.isAuthorized) =>
         hook.redirect =
           IF hook.session = NoSession THEN Some(hook.options.redirectTo)
           ELSE IF hook.session[1].user.role = "TEACHER" THEN Some("/dashboard/gv")
           ELSE IF hook.session[1].user.role = "STUDENT" THEN Some("/dashboard/student")
           ELSE Some("/")
    /\ hook.isAuthorized =>
         /\ hook.session # NoSession
         /\ hook.session[1].user.role # NoRole
         /\ C30_RoleSatisfies(hook.session[1].user.role, hook.options.requiredRole)

====
